---- MODULE Spec2Model ----
(***************************************************************************)
(* The two client facades of libsuitetecsa/api.py, UserPortalClient and    *)
(* NautaClient, over their collaborators: the protocol modules UserPortal  *)
(* and Nauta and the session type with its durable storage.                *)
(*                                                                         *)
(* A behaviour follows ONE client object (of either class) through any     *)
(* sequence of calls; Construct replaces it by a freshly constructed       *)
(* client of the same class, the durable storage staying as it is.         *)
(* Every call is one action: it runs the whole method, all collaborator    *)
(* calls included, and records in `last` what the call did.                *)
(***************************************************************************)
EXTENDS Integers, Sequences, FiniteSets, TLC

VARIABLES
    cls,      \* the class of the client: "UserPortalClient" or "NautaClient"
    session,  \* self.session: None or a session object [id, f]
    store,    \* the durable storage of the session type
    scope,    \* the with-statement around the client: "out", "in", "raised"
    last,     \* the call that finished last
    opened    \* history: a login() has returned and no logout() has since

vars == <<cls, session, store, scope, last, opened>>

(* ------------------------------ bounds --------------------------------- *)

\* Values the server may put in a session field or return from a query.
MaxVal == 2

Values == 1..MaxVal

(* --------------------------- session objects --------------------------- *)

\* Python's None, as a returned value.
NoneValue == 0

EmptyMap == [x \in {} |-> NoneValue]

\* self.session = None (api.py:28, api.py:250): no object, no attributes.
None == [id |-> 0, f |-> EmptyMap]

\* The identity of a newly allocated session object: distinct from the
\* object the client still holds while it is being allocated.
FreshId(held) == IF held.id = 1 THEN 2 ELSE 1

\* The account attributes the read-only accessors of UserPortalClient read.
AccountFields ==
    {"block_date", "delete_date", "account_type", "service_type",
     "credit", "time", "mail_account"}

\* A session object as the user-portal protocol module returns it: the
\* attributes it carries (all account attributes, or the balance alone)
\* as the server reported them.
PortalDomains == {AccountFields, {"credit"}}

PortalMaps == {[x \in D |-> v] : D \in PortalDomains, v \in Values}

\* A network session as Nauta.create_session returns it.
NautaMaps == {[x \in {"cookies"} |-> v] : v \in Values}

\* A bare NautaSession(): no protocol state in it.
BareSession == EmptyMap

\* dict.update: every key of `new` overwrites, the other keys of `old` stay.
Merge(old, new) ==
    [x \in (DOMAIN old) \cup (DOMAIN new) |->
        IF x \in DOMAIN new THEN new[x] ELSE old[x]]

\* obj.name = v
SetField(old, name, v) ==
    [x \in (DOMAIN old) \cup {name} |-> IF x = name THEN v ELSE old[x]]

(* ------------------------------ storage -------------------------------- *)

Absent == [present |-> FALSE, f |-> EmptyMap]

Persisted(m) == [present |-> TRUE, f |-> m]

(* ----------------------- running a method body ------------------------- *)

\* What a call returns.
NoResult == [kind |-> "None", v |-> NoneValue]
Self == [kind |-> "self", v |-> NoneValue]
ValueResult(v) == [kind |-> "value", v |-> v]

\* The state a method starts in: the client's fields, the storage, no
\* collaborator called yet, no exception raised.
Start ==
    [session |-> session, store |-> store, calls |-> <<>>,
     exc |-> "none", result |-> NoResult]

Raise(st, e) == [st EXCEPT !.exc = e]

Return(st, r) == [st EXCEPT !.result = r]

\* A collaborator call: its name, the session handed to it (-1: none is
\* passed), how it ended and what it returned.
Call(fn, arg, out, retMap, retVal) ==
    [fn |-> fn, arg |-> arg, out |-> out, retMap |-> retMap, retVal |-> retVal]

Called(st, c) == [st EXCEPT !.calls = Append(@, c)]

Returned(st) == st.calls[Len(st.calls)]

\* Sequencing: the next statement runs unless an exception is propagating.
Bind(S, F(_)) == UNION {IF st.exc = "none" THEN F(st) ELSE {st} : st \in S}

\* The ways a protocol call fails: a transport error of the network layer
\* (requests.RequestException) or an error of the protocol module itself.
ProtocolErrors == {"RequestException", "ProtocolError"}

ProtoFail(st, fn, arg) ==
    {Raise(Called(st, Call(fn, arg, e, EmptyMap, NoneValue)), e) :
        e \in ProtocolErrors}

\* A protocol call returning a session object.
ProtoMap(st, fn, arg, Maps) ==
    ProtoFail(st, fn, arg) \cup
    {Called(st, Call(fn, arg, "ok", m, NoneValue)) : m \in Maps}

\* A protocol call returning a value.
ProtoVal(st, fn, arg) ==
    ProtoFail(st, fn, arg) \cup
    {Called(st, Call(fn, arg, "ok", EmptyMap, v)) : v \in Values}

\* A protocol call returning nothing.
ProtoNone(st, fn, arg) ==
    ProtoFail(st, fn, arg) \cup
    {Called(st, Call(fn, arg, "ok", EmptyMap, NoneValue))}

\* session.save(): writes the session to durable storage, or raises with
\* the storage as it was.
Save(st) ==
    IF st.session = None
    THEN {Raise(st, "AttributeError")}
    ELSE {[Called(st, Call("save", st.session.id, "ok", EmptyMap, NoneValue))
              EXCEPT !.store = Persisted(st.session.f)],
          Raise(Called(st, Call("save", st.session.id, "IOError",
                                EmptyMap, NoneValue)), "IOError")}

\* session.dispose(): clears the durable storage.
Dispose(st) ==
    IF st.session = None
    THEN {Raise(st, "AttributeError")}
    ELSE {[Called(st, Call("dispose", st.session.id, "ok", EmptyMap, NoneValue))
              EXCEPT !.store = Absent]}

\* Update with the merge turned around: attributes the session already has
\* win over the returned ones.
UpdateKeepingOld(st, m) == {[st EXCEPT !.session.f = Merge(m, @)]}

\* self.session.__dict__.update(m)
Update(st, m) == {[st EXCEPT !.session.f = Merge(@, m)]}

\* Evaluating self.session.<attribute> on None raises AttributeError.
Deref(st) == IF st.session = None THEN {Raise(st, "AttributeError")} ELSE {st}

(* --------------------------- UserPortalClient -------------------------- *)

\* init_session without its save().
PortalInitSessionUnsaved(st) ==
    Bind(ProtoMap(st, "UserPortal.create_session", -1, PortalMaps),
         LAMBDA s : {[s EXCEPT !.session =
                        [id |-> FreshId(st.session), f |-> Returned(s).retMap]]})

\* init_session: self.session = UserPortal.create_session(); save()
PortalInitSession(st) ==
    Bind(ProtoMap(st, "UserPortal.create_session", -1, PortalMaps),
         LAMBDA s : Save([s EXCEPT !.session =
                            [id |-> FreshId(st.session), f |-> Returned(s).retMap]]))

\* init_session called without the `if not self.session` test.
PortalEnsureAlways(st) == PortalInitSession(st)

\* if not self.session: self.init_session()
PortalEnsure(st) == IF st.session = None THEN PortalInitSession(st) ELSE {st}

\* captcha_as_bytes
CaptchaAsBytes(st) ==
    Bind(PortalEnsure(st),
         LAMBDA s : Bind(ProtoVal(s, "UserPortal.get_captcha", s.session.id),
                         LAMBDA t : {Return(t, ValueResult(Returned(t).retVal))}))

\* login(captcha_code)
PortalLogin(st) ==
    Bind(PortalEnsure(st),
    LAMBDA s : Bind(ProtoMap(s, "UserPortal.login", s.session.id, PortalMaps),
    LAMBDA t : Bind(Update(t, Returned(t).retMap),
    LAMBDA u : Bind(Save(u),
    LAMBDA w : {Return(w, Self)}))))

\* The refresh persisting before it merges.
RefreshSaveFirst(st) ==
    Bind(Deref(st),
    LAMBDA s : Bind(ProtoMap(s, "UserPortal.get_user_info", s.session.id, PortalMaps),
    LAMBDA t : Bind(Save(t),
    LAMBDA u : Update(u, Returned(t).retMap))))

\* The refresh both recharge and transfer end with: the target
\* self.session.__dict__.update is evaluated before its argument.
Refresh(st) ==
    Bind(Deref(st),
    LAMBDA s : Bind(ProtoMap(s, "UserPortal.get_user_info", s.session.id, PortalMaps),
    LAMBDA t : Bind(Update(t, Returned(t).retMap),
    LAMBDA u : Save(u))))

\* recharge(recharge_code)
Recharge(st) ==
    Bind(ProtoNone(st, "UserPortal.recharge", st.session.id), LAMBDA s : Refresh(s))

\* transfer refreshing in a finally block: the refresh also runs when the
\* transfer itself raised.
TransferRefreshAlways(st) ==
    UNION {IF s.exc = "none" THEN Refresh(s)
           ELSE {[t EXCEPT !.exc = IF t.exc = "none" THEN s.exc ELSE t.exc] :
                    t \in Refresh([s EXCEPT !.exc = "none"])} :
        s \in ProtoNone(st, "UserPortal.transfer", st.session.id)}

\* transfer(mount_to_transfer, account_to_transfer)
Transfer(st) ==
    Bind(ProtoNone(st, "UserPortal.transfer", st.session.id), LAMBDA s : Refresh(s))

\* The methods that are one protocol call on self.session.
PortalCommands == {"change_password", "change_email_password"}
PortalQueries == {"get_lasts", "get_connections", "get_recharges", "get_transfers"}

\* change_password, change_email_password: the call's value is dropped.
PortalCommand(st, name) ==
    ProtoNone(st, "UserPortal." \o name, st.session.id)

\* get_lasts, get_connections, get_recharges, get_transfers
PortalQuery(st, name) ==
    Bind(ProtoVal(st, "UserPortal." \o name, st.session.id),
         LAMBDA t : {Return(t, ValueResult(Returned(t).retVal))})

\* An accessor that guarantees a session first, as captcha_as_bytes does.
AccessorEnsuring(st, name) ==
    Bind(PortalEnsure(st),
         LAMBDA s : IF name \in DOMAIN s.session.f
                    THEN {Return(s, ValueResult(s.session.f[name]))}
                    ELSE {Raise(s, "AttributeError")})

\* block_date .. mail_account: self.session.<name> if self.session else None
Accessor(st, name) ==
    IF st.session = None THEN {Return(st, NoResult)}
    ELSE IF name \in DOMAIN st.session.f
         THEN {Return(st, ValueResult(st.session.f[name]))}
         ELSE {Raise(st, "AttributeError")}

\* UserPortalClient.__exit__: pass
PortalExit(st) == {st}

(* ------------------------------ NautaClient ---------------------------- *)

\* init_session: self.session = Nauta.create_session(); save()
NautaInitSession(st) ==
    Bind(ProtoMap(st, "Nauta.create_session", -1, NautaMaps),
         LAMBDA s : Save([s EXCEPT !.session =
                            [id |-> FreshId(st.session), f |-> Returned(s).retMap]]))

\* NautaSession.is_logged_in(): whether a session is in durable storage.
SessionIsLoggedIn(st) == st.store.present

\* is_logged_in: return NautaSession.is_logged_in()
IsLoggedIn(st) ==
    {Return(st, [kind |-> "bool", v |-> IF SessionIsLoggedIn(st) THEN 1 ELSE 0])}

\* login() calling init_session whether or not a session is held.
NautaLoginFresh(st) ==
    Bind(NautaInitSession(st),
    LAMBDA s : Bind(ProtoVal(s, "Nauta.login", s.session.id),
    LAMBDA t : Bind({[t EXCEPT !.session.f =
                        SetField(@, "attribute_uuid", Returned(t).retVal)]},
    LAMBDA u : Bind(Save(u),
    LAMBDA w : {Return(w, Self)}))))

\* login()
NautaLogin(st) ==
    Bind(IF st.session = None THEN NautaInitSession(st) ELSE {st},
    LAMBDA s : Bind(ProtoVal(s, "Nauta.login", s.session.id),
    LAMBDA t : Bind({[t EXCEPT !.session.f =
                        SetField(@, "attribute_uuid", Returned(t).retVal)]},
    LAMBDA u : Bind(Save(u),
    LAMBDA w : {Return(w, Self)}))))

\* A finally block that returns: the exception of the try block is dropped.
DisposeEphemeralSwallowing(r, dispose_session) ==
    IF r.session # None /\ dispose_session
    THEN {[d EXCEPT !.session = None] : d \in Dispose([r EXCEPT !.exc = "none"])}
    ELSE {r}

\* A finally block that disposes whether or not the call created the session.
DisposeEphemeralAlways(r, dispose_session) ==
    IF r.session # None
    THEN {[d EXCEPT !.session = None, !.exc = r.exc] :
            d \in Dispose([r EXCEPT !.exc = "none"])}
    ELSE {r}

\* The finally block of user_credit and remaining_time: it runs on every
\* exit of the try block and keeps the value returned or exception raised.
DisposeEphemeral(r, dispose_session) ==
    IF r.session # None /\ dispose_session
    THEN {[d EXCEPT !.session = None, !.exc = r.exc] :
            d \in Dispose([r EXCEPT !.exc = "none"])}
    ELSE {r}

\* user_credit disposing at the end of the try block, not in a finally.
UserCreditNoFinally(st) ==
    Bind(IF st.session = None THEN NautaInitSession(st) ELSE {st},
    LAMBDA s : Bind(ProtoVal(s, "Nauta.get_user_credit", s.session.id),
    LAMBDA t : DisposeEphemeral(Return(t, ValueResult(Returned(t).retVal)),
                                st.session = None)))

\* user_credit
UserCredit(st) ==
    UNION {DisposeEphemeral(r, st.session = None) :
        r \in Bind(IF st.session = None THEN NautaInitSession(st) ELSE {st},
              LAMBDA s : Bind(ProtoVal(s, "Nauta.get_user_credit", s.session.id),
              LAMBDA t : {Return(t, ValueResult(Returned(t).retVal))}))}

\* remaining_time
RemainingTime(st) ==
    UNION {DisposeEphemeral(r, st.session = None) :
        r \in Bind(IF st.session = None
                   THEN {[st EXCEPT !.session =
                            [id |-> FreshId(st.session), f |-> BareSession]]}
                   ELSE {st},
              LAMBDA s : Bind(ProtoVal(s, "Nauta.get_user_time", s.session.id),
              LAMBDA t : {Return(t, ValueResult(Returned(t).retVal))}))}

\* No except clause: the transport error propagates.
TranslateNothing(r) == r

\* except RequestException: raise LogoutException(...)
Translate(r) ==
    IF r.exc = "RequestException" THEN Raise(r, "LogoutException") ELSE r

\* logout() disposing the session before it asks the protocol module.
NautaLogoutDisposeFirst(st) ==
    {IF r.exc = "RequestException" THEN Raise(r, "LogoutException") ELSE r :
        r \in Bind(Dispose(Called(st, Call("NautaClient.logout", -1, "ok",
                                           EmptyMap, NoneValue))),
              LAMBDA s : Bind(ProtoNone(s, "Nauta.logout", s.session.id),
              LAMBDA t : {[t EXCEPT !.session = None]}))}

\* logout()
NautaLogout(st) ==
    {Translate(r) :
        r \in Bind(ProtoNone(Called(st, Call("NautaClient.logout", -1, "ok",
                                             EmptyMap, NoneValue)),
                             "Nauta.logout", st.session.id),
              LAMBDA s : Bind(Dispose(s),
              LAMBDA t : {[t EXCEPT !.session = None]}))}

\* NautaSession.load(): the session last persisted, as a new object. With
\* nothing persisted it raises or yields no session.
Load(st) ==
    IF st.store.present
    THEN {Called(st, Call("load", -1, "ok", st.store.f, NoneValue))}
    ELSE {Called(st, Call("load", -1, "ok", EmptyMap, NoneValue)),
          Raise(Called(st, Call("load", -1, "IOError", EmptyMap, NoneValue)),
                "IOError")}

\* load_last_session() loading only when no session is held.
LoadLastSessionIfNone(st) ==
    IF st.session # None THEN {st}
    ELSE Bind(Load(st),
         LAMBDA s : {[s EXCEPT !.session =
                        IF st.store.present
                        THEN [id |-> FreshId(st.session), f |-> Returned(s).retMap]
                        ELSE None]})

\* load_last_session()
LoadLastSession(st) ==
    Bind(Load(st),
         LAMBDA s : {[s EXCEPT !.session =
                        IF st.store.present
                        THEN [id |-> FreshId(st.session), f |-> Returned(s).retMap]
                        ELSE None]})

\* __exit__ as in UserPortalClient: pass.
NautaExitPass(st) == {st}

\* NautaClient.__exit__: self.logout()
NautaExit(st) == NautaLogout(st)

(* ------------------------------ the machine ---------------------------- *)

Classes == {"UserPortalClient", "NautaClient"}

Init ==
    /\ cls \in Classes
    /\ session = None
    /\ store = Absent
    /\ scope = "out"
    /\ opened = FALSE
    /\ last = [op |-> "__init__", arg |-> "", exc |-> "none", result |-> NoResult,
               pre |-> None, preStore |-> Absent, calls |-> <<>>]

\* Whether a network session is open after run r of method op: login()
\* returning opens one, logout() returning closes it.
OpenAfter(op, r) ==
    IF cls = "NautaClient" /\ r.exc = "none" /\ op = "login" THEN TRUE
    ELSE IF cls = "NautaClient" /\ r.exc = "none" /\ op \in {"logout", "__exit__"}
         THEN FALSE
         ELSE opened

\* A call of method `op` whose possible runs are S. An exception leaving
\* the body of a with-statement ends the body.
Do(op, arg, S) ==
    /\ scope \in {"out", "in"}
    /\ \E r \in S :
        /\ session' = r.session
        /\ store' = r.store
        /\ last' = [op |-> op, arg |-> arg, exc |-> r.exc, result |-> r.result,
                    pre |-> session, preStore |-> store, calls |-> r.calls]
        /\ scope' = IF scope = "in" /\ r.exc # "none" THEN "raised" ELSE scope
        /\ opened' = OpenAfter(op, r)
    /\ UNCHANGED cls

IsPortal == cls = "UserPortalClient"
IsNauta == cls = "NautaClient"

DoPortalInitSession == IsPortal /\ Do("init_session", "", PortalInitSession(Start))
DoCaptchaAsBytes == IsPortal /\ Do("captcha_as_bytes", "", CaptchaAsBytes(Start))
DoPortalLogin == IsPortal /\ Do("login", "", PortalLogin(Start))
DoRecharge == IsPortal /\ Do("recharge", "", Recharge(Start))
DoTransfer == IsPortal /\ Do("transfer", "", Transfer(Start))
DoPortalCommand ==
    IsPortal /\ \E n \in PortalCommands : Do("command", n, PortalCommand(Start, n))
DoPortalQuery ==
    IsPortal /\ \E n \in PortalQueries : Do("query", n, PortalQuery(Start, n))
DoAccessor ==
    IsPortal /\ \E n \in AccountFields : Do("accessor", n, Accessor(Start, n))

NextPortal ==
    \/ DoPortalInitSession
    \/ DoCaptchaAsBytes
    \/ DoPortalLogin
    \/ DoRecharge
    \/ DoTransfer
    \/ DoPortalCommand
    \/ DoPortalQuery
    \/ DoAccessor

DoNautaInitSession == IsNauta /\ Do("init_session", "", NautaInitSession(Start))
DoIsLoggedIn == IsNauta /\ Do("is_logged_in", "", IsLoggedIn(Start))
DoNautaLogin == IsNauta /\ Do("login", "", NautaLogin(Start))
DoUserCredit == IsNauta /\ Do("user_credit", "", UserCredit(Start))
DoRemainingTime == IsNauta /\ Do("remaining_time", "", RemainingTime(Start))
DoNautaLogout == IsNauta /\ Do("logout", "", NautaLogout(Start))
DoLoadLastSession == IsNauta /\ Do("load_last_session", "", LoadLastSession(Start))

NextNauta ==
    \/ DoNautaInitSession
    \/ DoIsLoggedIn
    \/ DoNautaLogin
    \/ DoUserCredit
    \/ DoRemainingTime
    \/ DoNautaLogout
    \/ DoLoadLastSession

\* __init__: a new client object; what is in durable storage stays.
Construct ==
    /\ scope = "out"
    /\ session' = None
    /\ last' = [op |-> "__init__", arg |-> "", exc |-> "none", result |-> NoResult,
                pre |-> None, preStore |-> store, calls |-> <<>>]
    /\ UNCHANGED <<cls, store, scope, opened>>

\* with client: ... : __enter__ is `pass` in both classes.
Enter ==
    /\ scope = "out"
    /\ scope' = "in"
    /\ last' = [op |-> "__enter__", arg |-> "", exc |-> "none", result |-> NoResult,
                pre |-> session, preStore |-> store, calls |-> <<>>]
    /\ UNCHANGED <<cls, session, store, opened>>

\* Leaving the with-statement, its body finished ("in") or raised
\* ("raised"): __exit__ runs once; it returns None, so an exception of the
\* body goes on propagating unless __exit__ raises its own.
Exit ==
    /\ scope \in {"in", "raised"}
    /\ \E r \in (IF IsNauta THEN NautaExit(Start) ELSE PortalExit(Start)) :
        /\ session' = r.session
        /\ store' = r.store
        /\ last' = [op |-> "__exit__", arg |-> scope, exc |-> r.exc,
                    result |-> r.result, pre |-> session, preStore |-> store,
                    calls |-> r.calls]
        /\ opened' = OpenAfter("__exit__", r)
    /\ scope' = "out"
    /\ UNCHANGED cls

Next ==
    \/ NextPortal
    \/ NextNauta
    \/ Construct
    \/ Enter
    \/ Exit

Spec == Init /\ [][Next]_vars

(* ------------------------- reading the last call ----------------------- *)

\* The positions in the last call's log where collaborator fn was called.
CallsTo(fn) == {i \in DOMAIN last.calls : last.calls[i].fn = fn}

\* The (one) call of fn in the last call's log.
TheCall(fn) == last.calls[CHOOSE i \in CallsTo(fn) : TRUE]

\* fn was called and returned.
Succeeded(fn) == \E i \in CallsTo(fn) : last.calls[i].out = "ok"

\* The storage holds exactly what session object s holds.
InSync(s, st) == st = Persisted(s.f)

\* No save() raised in the last call.
SavesOk == \A i \in CallsTo("save") : last.calls[i].out = "ok"

NautaDid(op) == IsNauta /\ last.op = op
PortalDid(op) == IsPortal /\ last.op = op

(* -------------------------------- claims ------------------------------- *)

\* C1: user_credit and remaining_time called on a NautaClient holding no
\* session end, on every exit path (the query returns, the query raises,
\* create_session or save() raises), with self.session None; and whenever
\* a session object had been assigned, dispose() was the last thing done
\* with it and the storage is cleared.
C1_EphemeralSessionNeverLeaks ==
    ((NautaDid("user_credit") \/ NautaDid("remaining_time")) /\ last.pre = None)
    => /\ session = None
       /\ (NautaDid("remaining_time") \/ Succeeded("Nauta.create_session"))
          => /\ last.calls # <<>>
             /\ last.calls[Len(last.calls)].fn = "dispose"
             /\ store = Absent
       /\ (last.exc = "none") = (last.result.kind = "value")

\* C1 witness: user_credit without a session, save() of the new session
\* raised, and the session was disposed all the same.
C1_Witness ==
    /\ NautaDid("user_credit")
    /\ last.pre = None
    /\ last.exc = "IOError"
    /\ CallsTo("dispose") # {}
    /\ session = None

\* C2: logout() with a session held, the protocol logout failing with a
\* transport error: the caller gets LogoutException, and self.session and
\* the persisted session are what they were before the call.
C2_LogoutTransportFailure ==
    (NautaDid("logout") /\ last.pre # None /\ CallsTo("Nauta.logout") # {}
        /\ TheCall("Nauta.logout").out = "RequestException")
    => /\ last.exc = "LogoutException"
       /\ session = last.pre
       /\ store = last.preStore
       /\ CallsTo("dispose") = {}

\* C2 witness: a logged-in, persisted session whose logout hit a transport
\* error.
C2_Witness ==
    /\ NautaDid("logout")
    /\ last.pre # None
    /\ "attribute_uuid" \in DOMAIN last.pre.f
    /\ last.preStore.present
    /\ TheCall("Nauta.logout").out = "RequestException"

\* C3: recharge and transfer, when they return, leave every attribute that
\* get_user_info returned (the credit among them) in the session with the
\* returned value, and the storage holds that refreshed session.
C3_RefreshAfterMutate ==
    ((PortalDid("recharge") \/ PortalDid("transfer")) /\ last.exc = "none")
    => /\ Succeeded("UserPortal.get_user_info")
       /\ LET info == TheCall("UserPortal.get_user_info").retMap
          IN /\ "credit" \in DOMAIN info
             /\ \A x \in DOMAIN info :
                    x \in DOMAIN session.f /\ session.f[x] = info[x]
       /\ InSync(session, store)
       /\ last.calls[Len(last.calls)].fn = "save"

\* C3 witness: a transfer returned and changed the session's credit.
C3_Witness ==
    /\ PortalDid("transfer")
    /\ last.exc = "none"
    /\ "credit" \in DOMAIN last.pre.f
    /\ session.f["credit"] # last.pre.f["credit"]

\* C4: leaving the with-statement around a NautaClient, its body finished
\* or raised, calls logout() exactly once; when the protocol logout
\* succeeds self.session is None afterwards, and a session held on exit
\* has been disposed.
C4_ExitLogsOut ==
    NautaDid("__exit__")
    => /\ Cardinality(CallsTo("NautaClient.logout")) = 1
       /\ Cardinality(CallsTo("Nauta.logout")) = 1
       /\ Succeeded("Nauta.logout")
          => /\ session = None
             /\ last.pre # None
                => CallsTo("dispose") # {} /\ store = Absent /\ last.exc = "none"

\* C4 witness: the body raised while a logged-in session was held, and the
\* exit logged it out.
C4_Witness ==
    /\ NautaDid("__exit__")
    /\ last.arg = "raised"
    /\ last.pre # None
    /\ "attribute_uuid" \in DOMAIN last.pre.f
    /\ Succeeded("Nauta.logout")
    /\ session = None

\* The session's attributes when UserPortalClient.login reached the
\* protocol login: those held before the call, or those of the session
\* init_session created.
BeforeLogin ==
    IF last.pre = None THEN TheCall("UserPortal.create_session").retMap
    ELSE last.pre.f

\* C5 as stated: after a successful UserPortalClient.login the session's
\* attribute map equals the attribute map of the session the protocol
\* login returned, whatever the session held before.
C5_LoginReplacesAllFields ==
    (PortalDid("login") /\ last.exc = "none")
    => session.f = TheCall("UserPortal.login").retMap

\* C5 amended: after a successful UserPortalClient.login every attribute
\* of the returned session is in the client's session with the returned
\* value, every other attribute the session had keeps its value, that
\* state is the persisted state and the call returns the client.
C5_LoginMergesFields ==
    (PortalDid("login") /\ last.exc = "none")
    => LET ret == TheCall("UserPortal.login").retMap
       IN /\ DOMAIN session.f = (DOMAIN BeforeLogin) \cup (DOMAIN ret)
          /\ \A x \in DOMAIN ret : session.f[x] = ret[x]
          /\ \A x \in (DOMAIN session.f) \ (DOMAIN ret) :
                session.f[x] = BeforeLogin[x]
          /\ InSync(session, store)
          /\ last.result = Self

\* C5 witness: a login whose response carried fewer attributes than the
\* session held.
C5_Witness ==
    /\ PortalDid("login")
    /\ last.exc = "none"
    /\ last.pre # None
    /\ DOMAIN TheCall("UserPortal.login").retMap # DOMAIN session.f

\* C6 as stated: no UserPortalClient operation hands the protocol module a
\* null session.
C6_ProtocolNeverHandedNone ==
    IsPortal => \A i \in DOMAIN last.calls : last.calls[i].arg # None.id

\* C7: an accessor of UserPortalClient calls no collaborator and changes
\* neither self.session nor the storage; without a session it returns None
\* and does not raise; with a session carrying the attribute it returns
\* that attribute.
C7_AccessorsReadOnly ==
    PortalDid("accessor")
    => /\ session = last.pre
       /\ store = last.preStore
       /\ last.calls = <<>>
       /\ last.pre = None => last.exc = "none" /\ last.result = NoResult
       /\ (last.pre # None /\ last.arg \in DOMAIN last.pre.f)
          => last.exc = "none" /\ last.result = ValueResult(last.pre.f[last.arg])

\* C7 witness: an accessor read on a client without a session, nothing
\* persisted.
C7_Witness ==
    /\ PortalDid("accessor")
    /\ last.pre = None
    /\ last.result = NoResult
    /\ session = None
    /\ ~store.present

\* C8: logout() with a session held and the protocol logout succeeding
\* disposes the session (storage cleared) and leaves self.session None;
\* in logout() and __exit__, dispose() is called only after Nauta.logout
\* has returned.
C8_DisposeAfterLogout ==
    (NautaDid("logout") \/ NautaDid("__exit__"))
    => /\ (NautaDid("logout") /\ last.pre # None /\ Succeeded("Nauta.logout"))
          => session = None /\ store = Absent /\ last.exc = "none"
                /\ CallsTo("dispose") # {}
       /\ \A i \in CallsTo("dispose") :
            \E j \in CallsTo("Nauta.logout") : j < i /\ last.calls[j].out = "ok"
       /\ ~Succeeded("Nauta.logout") => store = last.preStore

\* C8 witness: a persisted session logged out successfully.
C8_Witness ==
    /\ NautaDid("logout")
    /\ last.pre # None
    /\ last.preStore.present
    /\ Succeeded("Nauta.logout")
    /\ session = None
    /\ store = Absent

\* C9: after a successful NautaClient.login the session's attribute_uuid
\* is the identifier Nauta.login returned, the persisted session carries
\* it too, the call returns the client, and a session held before the call
\* is the same object afterwards, its other attributes untouched.
C9_NautaLogin ==
    (NautaDid("login") /\ last.exc = "none")
    => LET uuid == TheCall("Nauta.login").retVal
       IN /\ session # None
          /\ "attribute_uuid" \in DOMAIN session.f
          /\ session.f["attribute_uuid"] = uuid
          /\ store.present
          /\ "attribute_uuid" \in DOMAIN store.f
          /\ store.f["attribute_uuid"] = uuid
          /\ last.result = Self
          /\ last.pre # None
             => /\ session.id = last.pre.id
                /\ CallsTo("Nauta.create_session") = {}
                /\ TheCall("Nauta.login").arg = last.pre.id
                /\ \A x \in (DOMAIN last.pre.f) \ {"attribute_uuid"} :
                        x \in DOMAIN session.f /\ session.f[x] = last.pre.f[x]

\* C9 witness: a second login on the session of a first one, with a new
\* identifier.
C9_Witness ==
    /\ NautaDid("login")
    /\ last.exc = "none"
    /\ last.pre # None
    /\ "attribute_uuid" \in DOMAIN last.pre.f
    /\ session.f["attribute_uuid"] # last.pre.f["attribute_uuid"]

C11_TransportErrorsPropagate ==
    /\ last.op \notin {"logout", "__exit__"}
       => \A i \in DOMAIN last.calls :
            last.calls[i].out = "RequestException" => last.exc = "RequestException"
    /\ last.exc = "LogoutException"
       => /\ NautaDid("logout") \/ NautaDid("__exit__")
          /\ CallsTo("Nauta.logout") # {}
          /\ TheCall("Nauta.logout").out = "RequestException"

\* C11 witness: user_credit on an ephemeral session, the query failing in
\* transport, the session disposed and the transport error raised.
C11_Witness ==
    /\ NautaDid("user_credit")
    /\ last.pre = None
    /\ CallsTo("Nauta.get_user_credit") # {}
    /\ TheCall("Nauta.get_user_credit").out = "RequestException"
    /\ CallsTo("dispose") # {}
    /\ last.exc = "RequestException"

\* C12: load_last_session() with a session persisted sets self.session to
\* a new object holding exactly the persisted attributes, whatever the
\* client held, and leaves the storage alone. With it: a successful
\* login() leaves its attribute_uuid in the storage, constructing a fresh
\* client leaves the storage as it is, and logout() hands the protocol
\* module the session the client holds; so load_last_session() on a fresh
\* client after a login yields the logged-in attribute_uuid and a following
\* logout() acts on it.
C12_LoadLastSession ==
    /\ (NautaDid("load_last_session") /\ last.preStore.present)
       => /\ last.exc = "none"
          /\ session # None
          /\ session.f = last.preStore.f
          /\ session.id # last.pre.id
          /\ store = last.preStore
    /\ (NautaDid("login") /\ last.exc = "none")
       => /\ store.present
          /\ "attribute_uuid" \in DOMAIN store.f
          /\ store.f["attribute_uuid"] = TheCall("Nauta.login").retVal
    /\ last.op = "__init__" => session = None /\ store = last.preStore
    /\ NautaDid("logout") => TheCall("Nauta.logout").arg = last.pre.id

\* C12 witness: a client holding a session that is not the persisted one
\* loaded the persisted, logged-in session.
C12_Witness ==
    /\ NautaDid("load_last_session")
    /\ last.pre # None
    /\ last.preStore.present
    /\ "attribute_uuid" \in DOMAIN last.preStore.f
    /\ last.pre.f # last.preStore.f
    /\ session.f = last.preStore.f

\* C13 as stated: is_logged_in is True only when a network session is
\* open, that is a login() has succeeded and no logout() has succeeded
\* since; so not after init_session() alone or a login() that failed.
C13_LoggedInOnlyWhenOpen ==
    (NautaDid("is_logged_in") /\ last.result = [kind |-> "bool", v |-> 1])
    => opened

\* C14: captcha_as_bytes and login of UserPortalClient call init_session
\* only when no session is held, and hand the protocol module the session
\* held; so a login() following captcha_as_bytes works on the session the
\* captcha was fetched for.
C14_SameSessionForCaptchaAndLogin ==
    (PortalDid("captcha_as_bytes") \/ PortalDid("login"))
    => /\ last.pre # None
          => /\ CallsTo("UserPortal.create_session") = {}
             /\ session.id = last.pre.id
             /\ \A i \in DOMAIN last.calls : last.calls[i].arg = last.pre.id
       /\ last.pre = None
          => /\ last.calls[1].fn = "UserPortal.create_session"
             /\ Cardinality(CallsTo("UserPortal.create_session")) = 1
       /\ \A i \in CallsTo("UserPortal.get_captcha") \cup CallsTo("UserPortal.login") :
            last.calls[i].arg = session.id /\ session # None

\* C14 witness: a login that returned on a session the client already held.
C14_Witness ==
    /\ PortalDid("login")
    /\ last.pre # None
    /\ last.exc = "none"
    /\ TheCall("UserPortal.login").arg = last.pre.id

\* C15: user_credit and remaining_time on a NautaClient that holds a
\* session leave, on every exit path, the session reference, its
\* attributes and the persisted session as they were, and dispose nothing.
C15_HeldSessionNotDisposed ==
    ((NautaDid("user_credit") \/ NautaDid("remaining_time")) /\ last.pre # None)
    => /\ session = last.pre
       /\ store = last.preStore
       /\ CallsTo("dispose") = {}
       /\ Len(last.calls) = 1
       /\ last.calls[1].arg = last.pre.id

\* C15 witness: remaining_time raised on a logged-in, persisted session.
C15_Witness ==
    /\ NautaDid("remaining_time")
    /\ last.pre # None
    /\ "attribute_uuid" \in DOMAIN last.pre.f
    /\ last.preStore.present
    /\ last.exc = "RequestException"

\* C16 as stated: user_credit and remaining_time on a client without an
\* in-memory session leave a persisted, logged-in session as it was.
C16_QueriesLeaveStorageAlone ==
    ((NautaDid("user_credit") \/ NautaDid("remaining_time"))
        /\ last.pre = None /\ last.preStore.present
        /\ "attribute_uuid" \in DOMAIN last.preStore.f)
    => store = last.preStore

\* C17: recharge and transfer on a client holding a session, raising out
\* of one of their two protocol calls, leave the session's attributes and
\* the persisted session as they were, and save nothing.
C17_NoPartialMerge ==
    ((PortalDid("recharge") \/ PortalDid("transfer")) /\ last.pre # None
        /\ last.exc \in ProtocolErrors)
    => /\ session = last.pre
       /\ store = last.preStore
       /\ CallsTo("save") = {}

\* C17 witness: a transfer went through and the get_user_info after it
\* failed.
C17_Witness ==
    /\ PortalDid("transfer")
    /\ last.pre # None
    /\ Succeeded("UserPortal.transfer")
    /\ CallsTo("UserPortal.get_user_info") # {}
    /\ TheCall("UserPortal.get_user_info").out = "RequestException"
    /\ last.exc = "RequestException"
====
